---- MODULE Spec2Model ----
(***************************************************************************)
(* jsrundir: a directory watcher that loads every script of a directory    *)
(* and of its first-level subdirectories, reloads them when they change,   *)
(* and delivers load/unload notifications through a serialized queue.      *)
(*                                                                         *)
(* Names are strings; Chars gives the characters of a name, so that the    *)
(* tests on a name (first character, suffix) and the default sort order of *)
(* Array.prototype.sort are computed on characters.  A path is the         *)
(* sequence of its components; path.join(dir, name) is Append(dir, name).  *)
(***************************************************************************)
EXTENDS Integers, Sequences, FiniteSets, TLC

VARIABLES
    disk,       \* the filesystem: path -> "absent" | "dir" | a file's content
    events,     \* native events read but not yet dispatched: <<dir, name>>
    fsOps,      \* number of filesystem changes made so far
    targets,    \* #targets
    watchers,   \* #watchers: path -> RunWatcher
    cache,      \* require.cache: path -> the content the module was loaded from
    queue,      \* #queue, each entry with the batch its promise chain runs
    handlers,   \* #handlers
    trace,      \* what the last call did, in order (calls, handles, notify)
    result,     \* how the last call ended: "none", or the error it threw
    last        \* history: path -> the artifact of the load notification enqueued
                \* for it, if no unload notification for it was enqueued since

vars == <<disk, events, fsOps, targets, watchers, cache, queue, handlers, trace, result, last>>

----------------------------------------------------------------------------
(* Bounds of the model *)

MaxFsOps == 2
MaxQueue == 4
MaxHandlers == 2

----------------------------------------------------------------------------
(* Names, characters, order *)

Chars(name) ==
    CASE name = "a.js"  -> <<"a", ".", "j", "s">>
      [] name = "b.js"  -> <<"b", ".", "j", "s">>
      [] name = "c.js"  -> <<"c", ".", "j", "s">>
      [] name = "c.json" -> <<"c", ".", "j", "s", "o", "n">>
      [] name = "x.js"  -> <<"x", ".", "j", "s">>
      [] name = "y.js"  -> <<"y", ".", "j", "s">>
      [] name = ".env.js" -> <<".", "e", "n", "v", ".", "j", "s">>
      [] name = "n.txt" -> <<"n", ".", "t", "x", "t">>
      [] name = "jsrundir.js" -> <<"j", "s", "r", "u", "n", "d", "i", "r", ".", "j", "s">>
      [] name = "a"     -> <<"a">>
      [] name = "d"     -> <<"d">>
      [] name = "e"     -> <<"e">>
      [] name = "z"     -> <<"z">>
      [] name = ".h"    -> <<".", "h">>
      [] name = "r"     -> <<"r">>
      [] name = "."     -> <<".">>
      [] name = ".js"   -> <<".", "j", "s">>
      [] name = ".json" -> <<".", "j", "s", "o", "n">>
      [] OTHER          -> <<"?">>

\* UTF-16 code units, which the default sort compares
Alphabet == <<".", "?", "a", "b", "c", "d", "e", "f", "g", "h", "i", "j", "k", "l", "m",
              "n", "o", "p", "q", "r", "s", "t", "u", "v", "w", "x", "y", "z">>

Code(c) == CHOOSE i \in 1..Len(Alphabet) : Alphabet[i] = c

RECURSIVE LessChars(_, _)
LessChars(s, t) ==
    IF s = <<>> THEN t # <<>>
    ELSE IF t = <<>> THEN FALSE
    ELSE IF Code(Head(s)) # Code(Head(t)) THEN Code(Head(s)) < Code(Head(t))
    ELSE LessChars(Tail(s), Tail(t))

LessName(a, b) == LessChars(Chars(a), Chars(b))

\* Array.prototype.sort() with no comparator, on a set of distinct names
RECURSIVE SortNames(_)
SortNames(S) ==
    IF S = {} THEN <<>>
    ELSE LET least == CHOOSE a \in S : \A b \in S \ {a} : LessName(a, b)
         IN <<least>> \o SortNames(S \ {least})

\* Array.prototype.reverse()
Reverse(s) == [i \in 1..Len(s) |-> s[Len(s) + 1 - i]]

\* String.prototype.endsWith
EndsWith(name, suffix) ==
    LET n == Chars(name)
        s == Chars(suffix)
    IN /\ Len(s) <= Len(n)
       /\ SubSeq(n, Len(n) - Len(s) + 1, Len(n)) = s

----------------------------------------------------------------------------
(* Maps with a changing key set (plain JS objects) *)

Put(f, k, v) == [x \in DOMAIN f \cup {k} |-> IF x = k THEN v ELSE f[x]]
Del(f, k) == [x \in DOMAIN f \ {k} |-> f[x]]
EmptyMap == [x \in {} |-> {}]

----------------------------------------------------------------------------
(* The filesystem and the modules on it *)

Root == <<"r">>

\* __realname: the entry point, which lives in the root it watches by default
realname == <<"r", "jsrundir.js">>

\* What a file holds, by what require() gives for it:
\*   bad    - loading it throws
\*   null   - module.exports is null
\*   plain  - an object with no jsrundir field
\*   jsnull - { jsrundir: null }
\*   hooks  - { jsrundir: { onLoad() {...}, onUnload() {...} } }
Contents == {"bad", "null", "plain", "jsnull", "hooks"}

\* A .json file holds data: it cannot declare functions
ContentsFor(name) == IF EndsWith(name, ".json") THEN Contents \ {"hooks"} ELSE Contents

Exports(c) ==
    [nullish  |-> c = "null",
     jsrundir |-> CASE c = "jsnull" -> "null" [] c = "hooks" -> "object" [] OTHER -> "undefined",
     onLoad   |-> c = "hooks",
     onUnload |-> c = "hooks"]

Stat(p) == IF p \in DOMAIN disk THEN disk[p] ELSE "absent"
IsFile(p) == Stat(p) \in Contents
IsDir(p) == Stat(p) = "dir"

Parent(p) == SubSeq(p, 1, Len(p) - 1)
Basename(p) == p[Len(p)]
IsUnder(p, d) == Len(p) > Len(d) /\ SubSeq(p, 1, Len(d)) = d

\* fs.readdirSync(dir)
Readdir(d) == {Basename(p) : p \in {q \in DOMAIN disk : Parent(q) = d /\ disk[q] # "absent"}}

----------------------------------------------------------------------------
(* The machine state a synchronous call works on, and what it logs *)

Item(op, path, x, art) == [op |-> op, path |-> path, x |-> x, art |-> art]

Machine(first) ==
    [watchers |-> watchers, cache |-> cache, queue |-> queue, events |-> events,
     trace |-> <<first>>, err |-> "none"]

Log(m, it) == [m EXCEPT !.trace = Append(@, it)]

\* throw new Error(...), or an error raised by the runtime
Throw(m, e) == [Log(m, Item("throw", <<>>, e, "-")) EXCEPT !.err = e]

\* error(e): a caught error is printed
Error(m, path) == Log(m, Item("error", path, "-", "-"))

----------------------------------------------------------------------------
(* #notify, synchronous part: push the resolver, resolve it when it is alone *)

\* (mutant) every entry is resolved as soon as it is pushed
NotifyEager(m, event, path, art) ==
    LET entry == [event |-> event, path |-> path, art |-> art, phase |-> "resolved", hs |-> <<>>]
    IN [Log(m, Item("notify", path, event, art)) EXCEPT !.queue = Append(@, entry)]

Notify(m, event, path, art) ==
    LET entry == [event |-> event, path |-> path, art |-> art,
                  phase |-> IF Len(m.queue) + 1 = 1 THEN "resolved" ELSE "waiting",
                  hs |-> <<>>]
    IN [Log(m, Item("notify", path, event, art)) EXCEPT !.queue = Append(@, entry)]

----------------------------------------------------------------------------
(* RunWatcher *)

NewRunWatcher(target, subdirs) ==
    [path |-> target, files |-> EmptyMap, directories |-> EmptyMap, subdirs |-> subdirs,
     watcher |-> FALSE, added |-> <<>>, removed |-> <<>>]

\* (mutant) the hidden-name test is left out
checkFileHidden(this, path, name) ==
    /\ (EndsWith(name, ".js") \/ EndsWith(name, ".json"))
    /\ path # realname
    /\ name \notin DOMAIN this.files

checkFile(this, path, name) ==
    /\ Chars(name)[1] # "."
    /\ (EndsWith(name, ".js") \/ EndsWith(name, ".json"))
    /\ path # realname
    /\ name \notin DOMAIN this.files

checkDirectory(this, path, name) ==
    /\ Chars(name)[1] # "."
    /\ this.subdirs
    /\ name \notin DOMAIN this.directories

fileInfo(path, name) ==
    [path |-> path, name |-> name, isFile |-> IsFile(path), isDirectory |-> IsDir(path)]

RECURSIVE watch(_, _, _), stop(_, _), adder(_, _, _), remover(_, _), teardown(_, _)
RECURSIVE scanFiles(_, _, _, _), scanDirectories(_, _, _, _)
RECURSIVE stopDirectories(_, _, _, _), stopFiles(_, _, _, _)

\* this.added(info) / this.removed(info): the callbacks watch() registered
fileAdded(m, p, info) ==
    IF ~checkFile(m.watchers[p], info.path, info.name) THEN m
    ELSE LET m1 == [m EXCEPT !.watchers[p].files = Put(@, info.name, info)]
         IN adder(Log(m1, Item("onAdd", info.path, "file", "-")), info, m1.watchers[p].added)

\* (mutant) the file is dropped from the map and the remover is not called
fileRemovedSilent(m, p, info) ==
    Log([m EXCEPT !.watchers[p].files = Del(@, info.name)],
        Item("onRemove", info.path, "file", "-"))

fileRemoved(m, p, info) ==
    LET m1 == [m EXCEPT !.watchers[p].files = Del(@, info.name)]
    IN remover(Log(m1, Item("onRemove", info.path, "file", "-")), info)

directoryAdded(m, p, info) ==
    IF ~checkDirectory(m.watchers[p], info.path, info.name) THEN m
    ELSE LET m1 == [m EXCEPT !.watchers[p].directories = Put(@, info.name, info)]
         IN adder(Log(m1, Item("onAdd", info.path, "dir", "-")), info, m1.watchers[p].added)

directoryRemoved(m, p, info) ==
    LET m1 == [m EXCEPT !.watchers[p].directories = Del(@, info.name)]
    IN remover(Log(m1, Item("onRemove", info.path, "dir", "-")), info)

\* (mutant) a tracked directory is removed whatever the name is now
callbackAnyKind(m, p, file) ==
    LET this == m.watchers[p]
        target == Append(p, file)
        info == fileInfo(target, file)
        m1 == IF file \in DOMAIN this.files
                THEN fileRemoved(m, p, this.files[file])
              ELSE IF this.subdirs /\ file \in DOMAIN this.directories
                THEN directoryRemoved(m, p, this.directories[file])
              ELSE m
    IN IF m1.err # "none" THEN m1
       ELSE IF info.isFile THEN fileAdded(m1, p, info)
       ELSE IF info.isDirectory THEN directoryAdded(m1, p, info)
       ELSE m1

\* the callback given to fs.watch
callback(m, p, file) ==
    LET this == m.watchers[p]
        target == Append(p, file)
        info == fileInfo(target, file)
        m1 == IF file \in DOMAIN this.files
                THEN fileRemoved(m, p, this.files[file])
              ELSE IF this.subdirs /\ file \in DOMAIN this.directories /\ ~info.isDirectory
                THEN directoryRemoved(m, p, this.directories[file])
              ELSE m
    IN IF m1.err # "none" THEN m1
       ELSE IF info.isFile THEN fileAdded(m1, p, info)
       ELSE IF info.isDirectory THEN directoryAdded(m1, p, info)
       ELSE m1

scanFiles(m, p, files, i) ==
    IF i > Len(files) \/ m.err # "none" THEN m
    ELSE scanFiles(IF files[i].isFile THEN fileAdded(m, p, files[i]) ELSE m, p, files, i + 1)

scanDirectories(m, p, files, i) ==
    IF i > Len(files) \/ m.err # "none" THEN m
    ELSE scanDirectories(IF files[i].isDirectory THEN directoryAdded(m, p, files[i]) ELSE m,
                         p, files, i + 1)

\* (mutant) the scan takes the directories before the files
initialScanDirectoriesFirst(m, p) ==
    LET sorted == SortNames(Readdir(p))
        files == [i \in 1..Len(sorted) |-> fileInfo(Append(p, sorted[i]), sorted[i])]
    IN scanFiles(scanDirectories(m, p, files, 1), p, files, 1)

\* the scan of watch(): files first, then directories, both in sorted order
initialScan(m, p) ==
    LET sorted == SortNames(Readdir(p))
        files == [i \in 1..Len(sorted) |-> fileInfo(Append(p, sorted[i]), sorted[i])]
    IN scanDirectories(scanFiles(m, p, files, 1), p, files, 1)

\* (mutant) the scan first, fs.watch after it
watchHandleLast(m, p, cb) ==
    IF m.watchers[p].watcher THEN Throw(m, "AlreadyWatching")
    ELSE LET m1 == [m EXCEPT !.watchers[p].added = cb, !.watchers[p].removed = cb]
         IN IF ~IsDir(p) THEN Throw(m1, "ENOENT")
            ELSE LET m2 == initialScan(m1, p)
                 IN [Log(m2, Item("watch", p, "-", "-")) EXCEPT !.watchers[p].watcher = TRUE]

watch(m, p, cb) ==
    IF m.watchers[p].watcher THEN Throw(m, "AlreadyWatching")
    ELSE LET m1 == [m EXCEPT !.watchers[p].added = cb, !.watchers[p].removed = cb]
         IN IF ~IsDir(p) THEN Throw(m1, "ENOENT")      \* fs.watch on a missing directory
            ELSE initialScan([Log(m1, Item("watch", p, "-", "-")) EXCEPT
                                  !.watchers[p].watcher = TRUE], p)

stopDirectories(m, p, keys, i) ==
    IF i > Len(keys) \/ m.err # "none" THEN m
    ELSE IF keys[i] \notin DOMAIN m.watchers[p].directories THEN Throw(m, "TypeError")
    ELSE stopDirectories(directoryRemoved(m, p, m.watchers[p].directories[keys[i]]), p, keys, i + 1)

stopFiles(m, p, keys, i) ==
    IF i > Len(keys) \/ m.err # "none" THEN m
    ELSE IF keys[i] \notin DOMAIN m.watchers[p].files THEN Throw(m, "TypeError")
    ELSE stopFiles(fileRemoved(m, p, m.watchers[p].files[keys[i]]), p, keys, i + 1)

\* (mutant) close() leaves the events already read for the handle in place
teardownKeepsEvents(m, p) ==
    LET m1 == [Log(m, Item("close", p, "-", "-")) EXCEPT !.watchers[p].watcher = FALSE]
        m2 == IF m1.watchers[p].subdirs
                THEN stopDirectories(m1, p,
                         Reverse(SortNames(DOMAIN m1.watchers[p].directories)), 1)
                ELSE m1
    IN IF m2.err # "none" THEN m2
       ELSE stopFiles(m2, p, Reverse(SortNames(DOMAIN m2.watchers[p].files)), 1)

\* stop() past its check: close the handle, remove directories, then files
teardown(m, p) ==
    LET \* watcher.close(): events read for this handle are dropped
        m1 == [Log(m, Item("close", p, "-", "-")) EXCEPT
                   !.watchers[p].watcher = FALSE,
                   !.events = SelectSeq(@, LAMBDA e : e[1] # p)]
        m2 == IF m1.watchers[p].subdirs
                THEN stopDirectories(m1, p,
                         Reverse(SortNames(DOMAIN m1.watchers[p].directories)), 1)
                ELSE m1
    IN IF m2.err # "none" THEN m2
       ELSE stopFiles(m2, p, Reverse(SortNames(DOMAIN m2.watchers[p].files)), 1)

\* (mutant) stop() without its check
stopUnchecked(m, p) == teardown(m, p)

stop(m, p) ==
    IF ~m.watchers[p].watcher THEN Throw(m, "NotWatching") ELSE teardown(m, p)

----------------------------------------------------------------------------
(* The engine: the callbacks #run gives to its watchers *)

remover(m, remove) ==
    IF remove.isFile THEN
        IF remove.path \in DOMAIN m.cache THEN
            LET art == m.cache[remove.path]
                loaded == Exports(art)
                m1 == Notify([m EXCEPT !.cache = Del(@, remove.path)],
                             "unload", remove.path, art)
            IN IF loaded.nullish THEN Throw(m1, "TypeError")
               ELSE IF loaded.jsrundir \in {"null", "object"} THEN
                    IF loaded.jsrundir = "null" THEN Throw(m1, "TypeError")
                    ELSE IF loaded.onUnload THEN Notify(m1, "onUnload", remove.path, art)
                    ELSE m1
               ELSE m1
        ELSE m
    ELSE IF remove.isDirectory THEN
        IF remove.path \notin DOMAIN m.watchers THEN Throw(m, "TypeError")
        ELSE LET m1 == stop(m, remove.path)
             IN IF m1.err # "none" THEN m1
                ELSE IF ~m1.watchers[remove.path].subdirs
                  THEN [m1 EXCEPT !.watchers = Del(@, remove.path)]
                ELSE m1
    ELSE m

\* (mutant) require() outside the try: a loader failure is thrown on
adderUncaught(m, add, cb) ==
    IF add.isFile THEN
        LET hit == add.path \in DOMAIN m.cache
        IN IF ~hit /\ (~IsFile(add.path) \/ Stat(add.path) = "bad")
             THEN Throw(m, "LoadError")
           ELSE LET art == IF hit THEN m.cache[add.path] ELSE Stat(add.path)
                    loaded == Exports(art)
                    m1 == [m EXCEPT !.cache = Put(@, add.path, art)]
                IN IF ~loaded.nullish /\ loaded.jsrundir \in {"null", "object"} THEN
                       IF loaded.jsrundir = "null" THEN Error(m1, add.path)
                       ELSE Notify(IF loaded.onLoad
                                     THEN Notify(m1, "onLoad", add.path, art) ELSE m1,
                                   "load", add.path, art)
                   ELSE Notify(m1, "load", add.path, art)
    ELSE IF add.isDirectory /\ add.path \notin DOMAIN m.watchers THEN
        watch([m EXCEPT !.watchers = Put(@, add.path, NewRunWatcher(add.path, FALSE))],
              add.path, cb)
    ELSE m

adder(m, add, cb) ==
    IF add.isFile THEN
        LET hit == add.path \in DOMAIN m.cache
        IN IF ~hit /\ (~IsFile(add.path) \/ Stat(add.path) = "bad")
             THEN Error(m, add.path)                    \* require throws: caught
           ELSE LET art == IF hit THEN m.cache[add.path] ELSE Stat(add.path)
                    loaded == Exports(art)
                    m1 == [m EXCEPT !.cache = Put(@, add.path, art)]
                IN IF ~loaded.nullish /\ loaded.jsrundir \in {"null", "object"} THEN
                       IF loaded.jsrundir = "null" THEN Error(m1, add.path)   \* TypeError: caught
                       ELSE Notify(IF loaded.onLoad
                                     THEN Notify(m1, "onLoad", add.path, art) ELSE m1,
                                   "load", add.path, art)
                   ELSE Notify(m1, "load", add.path, art)
    ELSE IF add.isDirectory /\ add.path \notin DOMAIN m.watchers THEN
        watch([m EXCEPT !.watchers = Put(@, add.path, NewRunWatcher(add.path, FALSE))],
              add.path, cb)
    ELSE m

----------------------------------------------------------------------------
(* The engine: add, #run, #stop *)

\* path.resolve on an absolute path: "." segments are dropped
resolve(t) == SelectSeq(t, LAMBDA c : c # ".")

\* (mutant) the registry is not consulted
addUnchecked(e, t) ==
    LET target == resolve(t)
    IN IF Stat(target) = "absent" THEN [e EXCEPT !.err = "ENOENT"]
       ELSE IF ~IsDir(target) THEN [e EXCEPT !.err = "NotADirectory"]
       ELSE [e EXCEPT !.targets = Append(@, target),
                      !.watchers = Put(@, target, NewRunWatcher(target, TRUE))]

add(e, t) ==
    LET target == resolve(t)
    IN IF Stat(target) = "absent" THEN [e EXCEPT !.err = "ENOENT"]     \* fs.lstatSync throws
       ELSE IF ~IsDir(target) THEN [e EXCEPT !.err = "NotADirectory"]
       ELSE IF target \in DOMAIN e.watchers THEN [e EXCEPT !.err = "AlreadyWatching"]
       ELSE [e EXCEPT !.targets = Append(@, target),
                      !.watchers = Put(@, target, NewRunWatcher(target, TRUE))]

runTarget(m, target) ==
    IF target \notin DOMAIN m.watchers THEN Throw(m, "UnknownTarget")
    ELSE IF ~m.watchers[target].subdirs THEN Throw(m, "UnknownTarget")
    ELSE watch(m, target, target)

stopTarget(m, target) ==
    IF target \notin DOMAIN m.watchers THEN Throw(m, "UnknownTarget")
    ELSE IF ~m.watchers[target].subdirs THEN Throw(m, "UnknownTarget")
    ELSE stop(m, target)

RECURSIVE run(_, _, _), stopAll(_, _, _)
run(m, ts, i) ==
    IF i > Len(ts) \/ m.err # "none" THEN m ELSE run(runTarget(m, ts[i]), ts, i + 1)

stopAll(m, ts, i) ==
    IF i > Len(ts) \/ m.err # "none" THEN m ELSE stopAll(stopTarget(m, ts[i]), ts, i + 1)

----------------------------------------------------------------------------
(* #notify, asynchronous part: the promise chain of each queued entry *)

Outcomes == {"returns", "throws", "promise"}

IsHook(event) == event \in {"onLoad", "onUnload"}

\* typeof event === "function" ? [ event ] : this.#handlers[event]
BatchHandlers(b) ==
    IF IsHook(b.event) THEN <<b.event>>
    ELSE IF b.event \in DOMAIN handlers THEN handlers[b.event]
    ELSE <<>>                                   \* undefined: the batch returns at once

BatchArgs(b) == IF IsHook(b.event) THEN <<>> ELSE <<b.path, b.art>>

\* (mutant) no .catch on the handler's promise
CatchNone(st) == st

\* .catch((e) => { error(e); }): a rejection is printed and becomes a fulfilment
Catch(st) == IF st = "rejected" THEN "caught" ELSE st

\* new Promise((resolve, reject) => { try { resolve(handler(...args)) } catch (e) { reject(e) } })
Call(outcome) ==
    CASE outcome = "returns" -> "fulfilled"
      [] outcome = "throws"  -> "rejected"
      [] outcome = "promise" -> "pending"

\* handlers.map(...): every handler is called, each with the batch's arguments
InvokeAll(hl, args, outcomes) ==
    [k \in 1..Len(hl) |-> [handler |-> hl[k], args |-> args, st |-> Catch(Call(outcomes[k]))]]

Settled(b) == \A k \in DOMAIN b.hs : b.hs[k].st # "pending"
Failed(b) == \E k \in DOMAIN b.hs : b.hs[k].st = "rejected"

\* (mutant) the entry is shifted and the next one is not resolved
ShiftOnly(q) == Tail(q)

\* this.#queue.shift(); if (this.#queue.length) this.#queue[0]();
Shift(q) ==
    LET q1 == Tail(q)
    IN IF Len(q1) > 0 /\ q1[1].phase = "waiting" THEN [q1 EXCEPT ![1].phase = "resolved"] ELSE q1

\* a promise reaction is ready to run: it runs before any other callback
MicrotaskPending ==
    \E i \in DOMAIN queue :
        \/ queue[i].phase = "resolved"
        \/ queue[i].phase = "running" /\ (Settled(queue[i]) \/ Failed(queue[i]))

----------------------------------------------------------------------------
(* Initial state: the engine constructed with no target, on some directory tree *)

\* a name with an extension names a file, a bare (or merely hidden) name a directory
IsFileName(name) == \E i \in 2..Len(Chars(name)) : Chars(name)[i] = "."

Tree(dirs, files, absent) ==
    [p \in dirs \cup DOMAIN files \cup absent |->
        IF p \in dirs THEN "dir" ELSE IF p \in DOMAIN files THEN files[p] ELSE "absent"]

InitEngine ==
    /\ events = <<>>
    /\ fsOps = 0
    /\ targets = <<>>
    /\ watchers = EmptyMap
    /\ cache = EmptyMap
    /\ queue = <<>>
    /\ handlers = [load |-> <<>>, unload |-> <<>>]
    /\ trace = <<>>
    /\ result = "none"
    /\ last = EmptyMap

----------------------------------------------------------------------------
(* Actions *)

\* a synchronous call ends: its effects are the machine state it reached
\* the history after the notifications of tr, in order: a load notification
\* enters its path and artifact, an unload notification takes the path out
RECURSIVE Replay(_, _)
Replay(l, tr) ==
    IF tr = <<>> THEN l
    ELSE Replay(IF Head(tr).op = "notify" /\ Head(tr).x = "load"
                  THEN Put(l, Head(tr).path, Head(tr).art)
                ELSE IF Head(tr).op = "notify" /\ Head(tr).x = "unload"
                  THEN Del(l, Head(tr).path)
                ELSE l,
                Tail(tr))

Commit(m) ==
    /\ Len(m.queue) <= MaxQueue
    /\ watchers' = m.watchers
    /\ cache' = m.cache
    /\ queue' = m.queue
    /\ events' = m.events
    /\ trace' = m.trace
    /\ result' = m.err
    /\ last' = Replay(last, m.trace)

Add(t) ==
    /\ ~MicrotaskPending
    /\ LET e == add([targets |-> targets, watchers |-> watchers, err |-> "none"], t)
       IN /\ targets' = e.targets
          /\ watchers' = e.watchers
          /\ result' = e.err
          /\ trace' = <<Item("add", t, "-", "-")>>
    /\ UNCHANGED <<disk, events, fsOps, cache, queue, handlers, last>>

\* on(event, handler)
On(event, handler) ==
    /\ ~MicrotaskPending
    /\ IF event \in DOMAIN handlers
         THEN /\ Len(handlers[event]) < MaxHandlers
              /\ handlers' = [handlers EXCEPT ![event] = Append(@, handler)]
         ELSE handlers' = handlers
    /\ trace' = <<Item("on", <<>>, event, "-")>>
    /\ result' = "none"
    /\ UNCHANGED <<disk, events, fsOps, targets, watchers, cache, queue, last>>

Run ==
    /\ ~MicrotaskPending
    /\ Commit(run(Machine(Item("run", <<>>, "-", "-")), targets, 1))
    /\ UNCHANGED <<disk, fsOps, targets, handlers>>

\* run(), while another process writes the file p again (same content) at some
\* moment of the scan of its directory: the handle of the directory, which
\* watch() opens before it scans, reports the change
RunTouching(p) ==
    /\ ~MicrotaskPending
    /\ fsOps < MaxFsOps
    /\ IsFile(p)
    /\ LET m == run(Machine(Item("run", <<>>, "-", "-")), targets, 1)
           seen == Parent(p) \in DOMAIN m.watchers /\ m.watchers[Parent(p)].watcher
       IN Commit([m EXCEPT !.events = IF seen THEN Append(@, <<Parent(p), Basename(p)>>) ELSE @])
    /\ fsOps' = fsOps + 1
    /\ UNCHANGED <<disk, targets, handlers>>

\* stop(): this.#targets.reverse() reverses the list in place
Stop ==
    /\ ~MicrotaskPending
    /\ targets' = Reverse(targets)
    /\ Commit(stopAll(Machine(Item("stop", <<>>, "-", "-")), Reverse(targets), 1))
    /\ UNCHANGED <<disk, fsOps, handlers>>

\* the next native event is dispatched to the callback of its handle
Dispatch ==
    /\ ~MicrotaskPending
    /\ events # <<>>
    /\ LET p == Head(events)[1]
           file == Head(events)[2]
           m == [Machine(Item("event", p, file, "-")) EXCEPT !.events = Tail(@)]
       IN Commit(callback(m, p, file))
    /\ UNCHANGED <<disk, fsOps, targets, handlers>>

\* the first reaction of an entry's chain: the batch begins
StartBatch(outs) ==
    \E i \in DOMAIN queue :
        /\ queue[i].phase = "resolved"
        /\ LET hl == BatchHandlers(queue[i])
           IN \E outcomes \in [1..Len(hl) -> outs] :
                queue' = [queue EXCEPT ![i].phase = "running",
                                       ![i].hs = InvokeAll(hl, BatchArgs(queue[i]), outcomes)]
        /\ trace' = <<>>
        /\ result' = "none"
        /\ UNCHANGED <<disk, events, fsOps, targets, watchers, cache, handlers, last>>

\* a promise returned by a handler resolves or rejects
SettleHandler ==
    \E i \in DOMAIN queue : \E k \in DOMAIN queue[i].hs : \E st \in {"fulfilled", "rejected"} :
        /\ queue[i].phase = "running"
        /\ queue[i].hs[k].st = "pending"
        /\ queue' = [queue EXCEPT ![i].hs[k].st = Catch(st)]
        /\ trace' = <<>>
        /\ result' = "none"
        /\ UNCHANGED <<disk, events, fsOps, targets, watchers, cache, handlers, last>>

\* Promise.all(batch) settles: the last reaction dequeues and starts the next entry
CompleteBatch ==
    \E i \in DOMAIN queue :
        /\ queue[i].phase = "running"
        /\ Settled(queue[i]) \/ Failed(queue[i])
        /\ queue' = IF Failed(queue[i])
                      THEN [queue EXCEPT ![i].phase = "rejected"]
                      ELSE Shift([queue EXCEPT ![i].phase = "done"])
        /\ trace' = <<>>
        /\ result' = "none"
        /\ UNCHANGED <<disk, events, fsOps, targets, watchers, cache, handlers, last>>

\* the events a change of dir/name raises: one per handle open on dir
Emit(dir, name) ==
    IF dir \in DOMAIN watchers /\ watchers[dir].watcher THEN <<<<dir, name>>>> ELSE <<>>

FsChange(d, evs) ==
    /\ fsOps < MaxFsOps
    /\ fsOps' = fsOps + 1
    /\ disk' = d
    /\ events' = events \o evs
    /\ trace' = <<>>
    /\ result' = "none"
    /\ UNCHANGED <<targets, watchers, cache, queue, handlers, last>>

\* a file is created, or written again (its content may stay the same)
WriteFile(p, c) ==
    /\ ~MicrotaskPending
    /\ IsFileName(Basename(p)) /\ c \in ContentsFor(Basename(p))
    /\ IsDir(Parent(p)) /\ ~IsDir(p)
    /\ FsChange([disk EXCEPT ![p] = c], Emit(Parent(p), Basename(p)))

Unlink(p) ==
    /\ ~MicrotaskPending
    /\ IsFile(p)
    /\ FsChange([disk EXCEPT ![p] = "absent"], Emit(Parent(p), Basename(p)))

\* rename(2) of a file inside its directory
Rename(p, q) ==
    /\ ~MicrotaskPending
    /\ IsFile(p) /\ Parent(q) = Parent(p) /\ q # p
    /\ IsFileName(Basename(q)) /\ disk[p] \in ContentsFor(Basename(q)) /\ ~IsDir(q)
    /\ FsChange([disk EXCEPT ![p] = "absent", ![q] = disk[p]],
                Emit(Parent(p), Basename(p)) \o Emit(Parent(p), Basename(q)))

Mkdir(p) ==
    /\ ~MicrotaskPending
    /\ ~IsFileName(Basename(p))
    /\ Len(p) > 1 /\ IsDir(Parent(p)) /\ Stat(p) = "absent"
    /\ FsChange([disk EXCEPT ![p] = "dir"], Emit(Parent(p), Basename(p)))

\* mkdir of any name, also one that looks like a script's
MkdirNamed(p) ==
    /\ ~MicrotaskPending
    /\ Len(p) > 1 /\ IsDir(Parent(p)) /\ Stat(p) = "absent"
    /\ FsChange([disk EXCEPT ![p] = "dir"], Emit(Parent(p), Basename(p)))

\* a directory is moved out of the tree with all it holds
MoveOut(p) ==
    /\ ~MicrotaskPending
    /\ Len(p) > 1 /\ IsDir(p)
    /\ FsChange([q \in DOMAIN disk |-> IF q = p \/ IsUnder(q, p) THEN "absent" ELSE disk[q]],
                Emit(Parent(p), Basename(p)))

----------------------------------------------------------------------------
(* Spec: one root with a script and a subdirectory, in a changing filesystem; *)
(* handlers and hooks return or throw synchronously                           *)

Disks ==
    { Tree({<<"r">>, <<"r", "d">>},
           (<<"r", "a.js">> :> c) @@ (<<"r", "d", "x.js">> :> "hooks"),
           {<<"r", "c.json">>, <<"r", "d", "e">>, <<"r", "d", "e", "y.js">>})
      : c \in {"plain", "null"} }

Init == disk \in Disks /\ InitEngine

Next ==
    \/ \E t \in {<<"r">>, <<"r", ".">>} : Add(t)
    \/ Run
    \/ Stop
    \/ Dispatch
    \/ StartBatch({"returns", "throws"})
    \/ CompleteBatch
    \/ \E p \in DOMAIN disk : \E c \in Contents : WriteFile(p, c)
    \/ \E p \in DOMAIN disk : Unlink(p)
    \/ \E p, q \in DOMAIN disk : Rename(p, q)
    \/ \E p \in DOMAIN disk : Mkdir(p)
    \/ \E p \in DOMAIN disk : MoveOut(p)

Spec == Init /\ [][Next]_vars

----------------------------------------------------------------------------
(* SpecQueue: the notification queue under handlers that may also return     *)
(* promises, which settle later; the filesystem does not change               *)

QueueDisks ==
    { Tree({<<"r">>}, (<<"r", "a.js">> :> "hooks") @@ (<<"r", "b.js">> :> "plain"), {}) }

InitQueue == disk \in QueueDisks /\ InitEngine

HandlerIds == {"f", "g"}

NextQueue ==
    \/ Add(<<"r">>)
    \/ \E event \in {"load", "unload", "other"}, h \in HandlerIds : On(event, h)
    \/ Run
    \/ Stop
    \/ StartBatch(Outcomes)
    \/ SettleHandler
    \/ CompleteBatch

SpecQueue == InitQueue /\ [][NextQueue]_vars

\* the notifications a call enqueued, in the order of its #notify calls
Notified(tr) ==
    LET n == SelectSeq(tr, LAMBDA it : it.op = "notify")
    IN [i \in 1..Len(n) |-> <<n[i].x, n[i].path, n[i].art>>]

Ident(q) == [i \in 1..Len(q) |-> <<q[i].event, q[i].path, q[i].art>>]

\* C1 (one batch at a time): only the entry at the head of the queue has begun;
\* every entry behind it is still waiting and has invoked no handler.
C1_OneRunning ==
    \A i \in DOMAIN queue : i > 1 => queue[i].phase = "waiting" /\ queue[i].hs = <<>>

\* C1 (order): a call appends its notifications to the queue in the order of its
\* #notify calls, and an entry leaves the queue only from the head, once it is
\* running and every handler of it has settled.
C1_Fifo ==
    [][ \/ Ident(queue') = Ident(queue) \o Notified(trace')
        \/ /\ Ident(queue') = Tail(Ident(queue))
           /\ queue[1].phase = "running"
           /\ Settled(queue[1]) ]_vars

\* C1: for any sequence of #notify calls and any interleaving of handler
\* completions, at most one batch runs at a time and batches begin in the order
\* of the #notify calls: the next batch begins only after every handler of the
\* batch before it has settled.
C1_Serialized == []C1_OneRunning /\ C1_Fifo

\* the head batch runs with a handler still pending while another batch waits
C1_Witness ==
    /\ Len(queue) >= 2
    /\ queue[1].phase = "running" /\ ~Settled(queue[1])
    /\ queue[2].phase = "waiting"

\* C2 (every handler is called): the batch that begins calls every handler
\* registered for its event, each with the batch's arguments, whatever the
\* handlers before it did.
C2_AllInvoked ==
    [][ \A i \in DOMAIN queue :
          (queue[i].phase = "resolved" /\ i \in DOMAIN queue' /\ queue'[i].phase = "running")
          => /\ Len(queue'[i].hs) = Len(BatchHandlers(queue[i]))
             /\ \A k \in DOMAIN queue'[i].hs :
                   /\ queue'[i].hs[k].handler = BatchHandlers(queue[i])[k]
                   /\ queue'[i].hs[k].args = BatchArgs(queue[i]) ]_vars

\* C2 (the error goes nowhere): no handler's promise stays rejected and no
\* entry's chain rejects, so the promise #notify returned never rejects.
C2_NoRejection ==
    \A i \in DOMAIN queue :
        /\ queue[i].phase \in {"waiting", "resolved", "running"}
        /\ \A k \in DOMAIN queue[i].hs : queue[i].hs[k].st \in {"pending", "fulfilled", "caught"}

\* C2 (the queue goes on): a settled batch in which a handler failed is dequeued
\* by the next step of the queue, which starts the entry behind it.
C2_Dequeued ==
    [][ (/\ queue # <<>> /\ queue[1].phase = "running" /\ Settled(queue[1])
         /\ \E k \in DOMAIN queue[1].hs : queue[1].hs[k].st = "caught"
         /\ queue' # queue)
        => /\ Ident(queue') = Tail(Ident(queue))
           /\ Len(queue') > 0 => queue'[1].phase = "resolved" ]_vars

\* C2: a handler that throws or whose promise rejects stops nothing: the other
\* handlers of the event are called with the same arguments, the batch completes
\* and is dequeued, the next batch runs, and #notify's caller sees no error.
C2_FaultIsolation == []C2_NoRejection /\ C2_AllInvoked /\ C2_Dequeued

\* two handlers of one batch, one of which failed and was caught, with another
\* batch waiting behind
C2_Witness ==
    /\ Len(queue) >= 2
    /\ queue[1].phase = "running"
    /\ Len(queue[1].hs) >= 2
    /\ queue[1].hs[1].st = "caught"
    /\ queue[1].hs[2].st = "fulfilled"

----------------------------------------------------------------------------
(* Claims about the watchers and the engine *)

Range(f) == {f[i] : i \in DOMAIN f}

\* the name is one the engine loads: not hidden, with a recognised extension
EligibleName(name) ==
    /\ Chars(name)[1] # "."
    /\ \/ SubSeq(Chars(name), Len(Chars(name)) - 2, Len(Chars(name))) = <<".", "j", "s">>
       \/ SubSeq(Chars(name), Len(Chars(name)) - 4, Len(Chars(name))) = <<".", "j", "s", "o", "n">>

\* p is a file the engine is to load: eligible, and in a root or in a
\* non-hidden directory of a root
EligibleFile(p) ==
    /\ IsFile(p) /\ EligibleName(Basename(p)) /\ p # realname
    /\ \/ Parent(p) \in Range(targets)
       \/ /\ Len(p) > 2 /\ Parent(Parent(p)) \in Range(targets)
          /\ Chars(Basename(Parent(p)))[1] # "."

EngineRunning == targets # <<>> /\ \A t \in Range(targets) : watchers[t].watcher

\* the step dispatched the native event <<p, file>>
Dispatched(p, file) ==
    /\ events # <<>> /\ Head(events) = <<p, file>>
    /\ trace' # <<>> /\ trace'[1] = Item("event", p, file, "-")

\* tr holds an unload notification for path and, after it, a load notification
UnloadThenLoad(tr, path) ==
    \E i, j \in DOMAIN tr :
        /\ i < j
        /\ tr[i].op = "notify" /\ tr[i].x = "unload" /\ tr[i].path = path
        /\ tr[j].op = "notify" /\ tr[j].x = "load" /\ tr[j].path = path

\* C3: when a native event arrives for a script that a running watcher tracks,
\* that is loaded, and that is still a file on disk which the loader accepts (a
\* modification), the engine enqueues an unload notification for its path and
\* then a load notification for the same path.
C3_ModifyReloads ==
    [][ \A p \in DOMAIN watchers : \A file \in DOMAIN watchers[p].files :
          (/\ Dispatched(p, file)
           /\ watchers[p].watcher
           /\ Append(p, file) \in DOMAIN cache
           /\ IsFile(Append(p, file)) /\ disk[Append(p, file)] # "bad")
          => UnloadThenLoad(trace', Append(p, file)) ]_vars

\* C4: while the engine runs, once every native event has been processed, the
\* loaded paths are exactly the eligible files on disk (those the loader accepts).
C4_EventuallyConsistent ==
    (EngineRunning /\ events = <<>>)
    => DOMAIN cache = {p \in DOMAIN disk : EligibleFile(p) /\ disk[p] # "bad"}

\* C7: every non-hidden directory directly in a running root has a watcher of its
\* own that tracks the eligible files in it (once the events are processed); no
\* directory below such a directory is tracked or watched, and no notification
\* names a path two or more levels below a root.
C7_DepthCap ==
    /\ (EngineRunning /\ events = <<>>)
       => \A t \in Range(targets) : \A n \in Readdir(t) :
            (IsDir(Append(t, n)) /\ Chars(n)[1] # ".")
            => /\ Append(t, n) \in DOMAIN watchers
               /\ watchers[Append(t, n)].watcher
               /\ \A f \in Readdir(Append(t, n)) :
                     EligibleFile(Append(Append(t, n), f))
                     => f \in DOMAIN watchers[Append(t, n)].files
    /\ \A p \in DOMAIN watchers :
          \/ p \in Range(targets)
          \/ Parent(p) \in Range(targets) /\ watchers[p].directories = EmptyMap
    /\ \A i \in DOMAIN trace :
          trace[i].op = "notify"
          => \E t \in Range(targets) : Len(trace[i].path) <= Len(t) + 2 /\ IsUnder(trace[i].path, t)

\* C9: stop() on a watcher with no handle throws NotWatching and watch() on a
\* watcher with a handle throws AlreadyWatching; the failing call changes
\* neither the handle, the maps and the callbacks of any watcher nor anything
\* else, and calls neither onAdd nor onRemove.
C9_UsageErrors ==
    \A p \in DOMAIN watchers :
        LET m == Machine(Item("call", p, "-", "-"))
        IN IF watchers[p].watcher
             THEN watch(m, p, p) = [m EXCEPT !.err = "AlreadyWatching",
                                             !.trace = Append(@, Item("throw", <<>>, "AlreadyWatching", "-"))]
             ELSE stop(m, p) = [m EXCEPT !.err = "NotWatching",
                                         !.trace = Append(@, Item("throw", <<>>, "NotWatching", "-"))]

\* stop() was called on a watcher with no handle that still tracks a file
C9_Witness ==
    /\ result = "NotWatching"
    /\ trace # <<>> /\ trace[1].op = "stop"
    /\ \E p \in DOMAIN watchers : ~watchers[p].watcher /\ watchers[p].files # EmptyMap

----------------------------------------------------------------------------
(* SpecScan: a root with two scripts and two subdirectories *)

ScanDisks ==
    { Tree({<<"r">>, <<"r", "a">>, <<"r", "z">>},
           (<<"r", "b.js">> :> "hooks") @@ (<<"r", "a.js">> :> c) @@ (<<"r", "a", "x.js">> :> "plain"),
           {})
      : c \in {"plain", "null"} }

InitScan == disk \in ScanDisks /\ InitEngine

NextScan ==
    \/ Add(<<"r">>)
    \/ Run
    \/ Stop
    \/ Dispatch
    \/ StartBatch({"returns"})
    \/ CompleteBatch
    \/ \E p \in DOMAIN disk : \E c \in {"bad", "null"} : WriteFile(p, c)
    \/ \E p \in DOMAIN disk : Unlink(p)
    \/ \E p \in DOMAIN disk : Mkdir(p)
    \/ \E p \in DOMAIN disk : MoveOut(p)

SpecScan == InitScan /\ [][NextScan]_vars

\* the children of p that tr adds (onAdd) or removes (onRemove), in order
Calls(tr, op, p) ==
    LET c == SelectSeq(tr, LAMBDA it : it.op = op /\ it.path # <<>> /\ Parent(it.path) = p)
    IN [i \in 1..Len(c) |-> <<Basename(c[i].path), c[i].x>>]

Ascending(names) == \A i, j \in DOMAIN names : i < j => LessName(names[i], names[j])
Descending(names) == \A i, j \in DOMAIN names : i < j => LessName(names[j], names[i])

Names(calls, kind) ==
    LET c == SelectSeq(calls, LAMBDA x : x[2] = kind) IN [i \in 1..Len(c) |-> c[i][1]]

\* in calls, every call of kind first comes before every call of kind then
Before(calls, first, then) ==
    \A i, j \in DOMAIN calls : (calls[i][2] = first /\ calls[j][2] = then) => i < j

\* C5: a watcher that starts calls onAdd for every eligible file of its directory
\* in ascending name order and, only after all of them and only when it is
\* recursive, for every eligible subdirectory in ascending name order.
C5_ScanOrder ==
    [][ \A k \in DOMAIN trace' :
          trace'[k].op = "watch" =>
            LET p == trace'[k].path
                this == IF p \in DOMAIN watchers THEN watchers[p] ELSE NewRunWatcher(p, FALSE)
                calls == Calls(trace', "onAdd", p)
            IN /\ Before(calls, "file", "dir")
               /\ Ascending(Names(calls, "file"))
               /\ Ascending(Names(calls, "dir"))
               /\ Range(Names(calls, "file")) =
                     {n \in Readdir(p) : /\ IsFile(Append(p, n)) /\ EligibleName(n)
                                         /\ Append(p, n) # realname
                                         /\ n \notin DOMAIN this.files}
               /\ Range(Names(calls, "dir")) =
                     {n \in Readdir(p) : /\ IsDir(Append(p, n)) /\ Chars(n)[1] # "."
                                         /\ this.subdirs
                                         /\ n \notin DOMAIN this.directories} ]_vars

\* run() on a root holding the files b.js, a.js and the directories z, a
C5_Witness ==
    /\ trace # <<>> /\ trace[1].op = "run"
    /\ Calls(trace, "onAdd", <<"r">>) =
         << <<"a.js", "file">>, <<"b.js", "file">>, <<"a", "dir">>, <<"z", "dir">> >>
    /\ Calls(trace, "onAdd", <<"r", "a">>) = << <<"x.js", "file">> >>

\* C6 (order): stop() closes the handle before it removes a child, then removes
\* every tracked subdirectory in descending name order, then every tracked file
\* in descending name order.
C6_Order ==
    [][ \A k \in DOMAIN trace' :
          trace'[k].op = "close" =>
            LET p == trace'[k].path
                calls == Calls(trace', "onRemove", p)
            IN /\ Calls(SubSeq(trace', 1, k), "onRemove", p) = <<>>
               /\ Before(calls, "dir", "file")
               /\ Descending(Names(calls, "dir"))
               /\ Descending(Names(calls, "file"))
               /\ Range(Names(calls, "dir")) = DOMAIN watchers[p].directories
               /\ Range(Names(calls, "file")) = DOMAIN watchers[p].files ]_vars

\* C6 (mirror): with no filesystem event between them, the removals of stop() are
\* the additions of the initial scan in reverse.
C6_Mirror ==
    \A p \in Range(targets) :
        (~watchers[p].watcher /\ IsDir(p)
         /\ watchers[p].files = EmptyMap /\ watchers[p].directories = EmptyMap)
        => LET started == watch(Machine(Item("call", p, "-", "-")), p, p)
               stopped == stop([started EXCEPT !.trace = <<>>], p)
           IN Calls(stopped.trace, "onRemove", p) = Reverse(Calls(started.trace, "onAdd", p))

\* C6: RunWatcher.stop() closes the native handle before calling onRemove for any
\* child, then removes every tracked subdirectory in descending name order, then
\* every tracked file in descending name order; with no filesystem event between
\* start and stop the removals are the exact reverse of the scan's additions.
C6_Teardown == C6_Order /\ []C6_Mirror

----------------------------------------------------------------------------
(* SpecNames: a root that holds hidden names, a text file and the engine's own *)
(* file beside a script                                                        *)

NameDisks ==
    { Tree({<<"r">>, <<"r", ".h">>},
           (<<"r", "a.js">> :> c) @@ (<<"r", ".env.js">> :> "hooks")
             @@ (<<"r", "jsrundir.js">> :> "plain") @@ (<<"r", "n.txt">> :> "plain")
             @@ (<<"r", ".h", "x.js">> :> "plain"),
           {<<"r", "c.json">>})
      : c \in {"plain", "jsnull"} }

InitNames == disk \in NameDisks /\ InitEngine

NextNames ==
    \/ Add(<<"r">>)
    \/ Run
    \/ Stop
    \/ Dispatch
    \/ StartBatch({"returns"})
    \/ CompleteBatch
    \/ \E p \in DOMAIN disk : WriteFile(p, "plain")
    \/ \E p \in DOMAIN disk : Unlink(p)
    \/ \E p, q \in DOMAIN disk : Rename(p, q)

SpecNames == InitNames /\ [][NextNames]_vars

\* C8: every name in the files map of a watcher does not start with "." and
\* ends with .js or .json, and its path is not the engine's own file; no load
\* notification is enqueued for a hidden file.
C8_Eligibility ==
    /\ \A p \in DOMAIN watchers : \A n \in DOMAIN watchers[p].files :
          /\ EligibleName(n)
          /\ watchers[p].files[n].path # realname
          /\ Append(p, n) # realname
    /\ \A i \in DOMAIN queue :
          queue[i].event = "load" => Chars(Basename(queue[i].path))[1] # "."
    /\ \A i \in DOMAIN trace :
          (trace[i].op = "notify" /\ trace[i].x = "load")
          => Chars(Basename(trace[i].path))[1] # "."

\* the running root was told of a change of the hidden script .env.js, which is
\* on disk, and of nothing else
C8_Witness ==
    /\ trace # <<>> /\ trace[1] = Item("event", <<"r">>, ".env.js", "-")
    /\ IsFile(<<"r", ".env.js">>)
    /\ watchers[<<"r">>].watcher
    /\ DOMAIN watchers[<<"r">>].files = {"a.js"}

----------------------------------------------------------------------------
(* SpecTargets: targets added before and after run(), among them a directory *)
(* of another target, a file and a missing path; the filesystem stays as is  *)

TargetDisks ==
    { Tree({<<"r">>, <<"r", "d">>},
           (<<"r", "a.js">> :> c) @@ (<<"r", "d", "x.js">> :> "plain"),
           {})
      : c \in {"plain", "null"} }

AddInputs == {<<"r">>, <<"r", ".">>, <<"r", "d">>, <<"r", "a.js">>, <<"q">>}

InitTargets == disk \in TargetDisks /\ InitEngine

NextTargets ==
    \/ \E t \in AddInputs : Add(t)
    \/ Run
    \/ Stop
    \/ StartBatch({"returns"})
    \/ CompleteBatch

SpecTargets == InitTargets /\ [][NextTargets]_vars

\* the step is the call add(t)
IsAdd(t) == trace' = <<Item("add", t, "-", "-")>>

\* add() installs no handle, enqueues nothing and, when it fails, changes nothing
AddIsRegistration ==
    /\ result' # "none" => (targets' = targets /\ watchers' = watchers)
    /\ queue' = queue /\ cache' = cache /\ events' = events
    /\ \A p \in DOMAIN watchers' :
          watchers'[p].watcher => (p \in DOMAIN watchers /\ watchers[p].watcher)

\* C10 (as stated): add(target) fails with NotADirectory when the resolved path
\* is not a directory, with AlreadyWatching when the same resolved path was
\* added by an earlier add, and otherwise appends the target after the targets
\* added before; a failing add changes neither the target list nor the
\* registry, and no add installs a handle or enqueues a notification.
C10_AsStated ==
    [][ \A t \in AddInputs :
          IsAdd(t) =>
            LET target == resolve(t)
            IN /\ result' = IF ~IsDir(target) THEN "NotADirectory"
                            ELSE IF target \in Range(targets) THEN "AlreadyWatching"
                            ELSE "none"
               /\ result' = "none" => targets' = Append(targets, target)
               /\ AddIsRegistration ]_vars

\* C10 (amended): add(target) fails with the filesystem's ENOENT when the
\* resolved path does not exist, with NotADirectory when it exists and is not a
\* directory, with AlreadyWatching when the registry holds a watcher for it (a
\* target added before, or a subdirectory that run() found), and otherwise
\* appends the target and registers a recursive watcher with no handle; a
\* failing add changes neither the target list nor the registry, and no add
\* installs a handle or enqueues a notification.
C10_Add ==
    [][ \A t \in AddInputs :
          IsAdd(t) =>
            LET target == resolve(t)
            IN /\ result' = IF Stat(target) = "absent" THEN "ENOENT"
                            ELSE IF ~IsDir(target) THEN "NotADirectory"
                            ELSE IF target \in DOMAIN watchers THEN "AlreadyWatching"
                            ELSE "none"
               /\ result' = "none"
                  => /\ targets' = Append(targets, target)
                     /\ DOMAIN watchers' = DOMAIN watchers \cup {target}
                     /\ watchers'[target].subdirs /\ ~watchers'[target].watcher
                     /\ \A p \in DOMAIN watchers : watchers'[p] = watchers[p]
               /\ AddIsRegistration ]_vars

\* add() of a subdirectory that run() found, and that no add() named, failed
C10_Witness ==
    /\ trace = <<Item("add", <<"r", "d">>, "-", "-")>>
    /\ result = "AlreadyWatching"
    /\ <<"r", "d">> \notin Range(targets)
    /\ <<"r">> \in Range(targets)

----------------------------------------------------------------------------
(* Claims about the loader, renames and the life of a target *)

\* tr[k] is a notification of the given event for path
IsNotify(tr, k, event, path) ==
    tr[k].op = "notify" /\ tr[k].x = event /\ tr[k].path = path

\* tr[k] is the call onAdd(file path) and the loader fails in it: the script
\* on disk does not load and no module is cached for the path at that moment
LoaderFails(tr, k) ==
    /\ tr[k].op = "onAdd" /\ tr[k].x = "file"
    /\ Stat(tr[k].path) = "bad"
    /\ \/ tr[k].path \notin DOMAIN cache
       \/ \E j \in 1..(k - 1) : IsNotify(tr, j, "unload", tr[k].path)

\* C11: when the loader fails for an eligible file, no load notification is
\* enqueued for it, no error leaves the adder, and the watcher keeps its handle
\* and the file; the next native event for the name, while it is still a file,
\* calls the loader on it again.
C11_LoaderFailure ==
    [][ /\ \A k \in DOMAIN trace' :
             LoaderFails(trace', k) =>
               LET path == trace'[k].path
               IN /\ k < Len(trace') /\ trace'[k + 1] = Item("error", path, "-", "-")
                  /\ \A j \in (k + 1)..Len(trace') :
                        /\ ~IsNotify(trace', j, "load", path)
                        /\ trace'[j].op # "throw"
                  /\ result' = "none"
                  /\ path \notin DOMAIN cache'
                  /\ watchers'[Parent(path)].watcher
                  /\ Basename(path) \in DOMAIN watchers'[Parent(path)].files
        /\ \A p \in DOMAIN watchers : \A file \in DOMAIN watchers[p].files :
             (/\ Dispatched(p, file)
              /\ watchers[p].watcher
              /\ Append(p, file) \notin DOMAIN cache
              /\ IsFile(Append(p, file)))
             => \E k \in DOMAIN trace' :
                   /\ trace'[k] = Item("onAdd", Append(p, file), "file", "-")
                   /\ k < Len(trace')
                   /\ \/ trace'[k + 1] = Item("error", Append(p, file), "-", "-")
                      \/ (trace'[k + 1].op = "notify" /\ trace'[k + 1].path = Append(p, file)) ]_vars

\* an event for a tracked script that had failed to load was dispatched, and
\* the loader was called on it and failed again; the watcher goes on
C11_Witness ==
    /\ Len(trace) = 4
    /\ trace[1] = Item("event", <<"r">>, "a.js", "-")
    /\ trace[2] = Item("onRemove", <<"r", "a.js">>, "file", "-")
    /\ trace[3] = Item("onAdd", <<"r", "a.js">>, "file", "-")
    /\ trace[4] = Item("error", <<"r", "a.js">>, "-", "-")
    /\ Stat(<<"r", "a.js">>) = "bad"
    /\ result = "none"
    /\ watchers[<<"r">>].watcher

----------------------------------------------------------------------------
(* SpecRename: a root with one script, which is renamed, deleted or rewritten *)

RenameDisks ==
    { Tree({<<"r">>}, (<<"r", "a.js">> :> c), {<<"r", "c.js">>})
      : c \in {"plain", "hooks", "null", "jsnull"} }

InitRename == disk \in RenameDisks /\ InitEngine

NextRename ==
    \/ Add(<<"r">>)
    \/ Run
    \/ Stop
    \/ Dispatch
    \/ StartBatch({"returns"})
    \/ CompleteBatch
    \/ \E p \in DOMAIN disk : \E c \in {"plain", "bad"} : WriteFile(p, c)
    \/ \E p \in DOMAIN disk : Unlink(p)
    \/ \E p, q \in DOMAIN disk : Rename(p, q)

SpecRename == InitRename /\ [][NextRename]_vars

\* file a of the running root p is tracked and loaded and has just been renamed
\* to the new name c: the events for the two names are the ones to process
Renamed(p, a, c) ==
    /\ p \in DOMAIN watchers /\ watchers[p].watcher
    /\ a \in DOMAIN watchers[p].files /\ c \notin DOMAIN watchers[p].files
    /\ Append(p, a) \in DOMAIN cache
    /\ Stat(Append(p, a)) = "absent"
    /\ IsFile(Append(p, c)) /\ EligibleName(c)
    /\ events = << <<p, a>>, <<p, c>> >>

\* the notifications enqueued while the two events are processed, one callback
\* after the other
RenameNotified(p, a, c) ==
    LET m0 == [Machine(Item("event", p, a, "-")) EXCEPT !.events = Tail(@)]
        m1 == callback(m0, p, a)
        m2 == callback([Log(m1, Item("event", p, c, "-")) EXCEPT
                            !.err = "none", !.events = Tail(@)], p, c)
    IN Notified(m2.trace)

\* C12 (as stated): when a loaded file a.js of a running root is renamed to c.js
\* and the events for both names are processed, the queue receives
\* unload(a.js, artifact) and then load(c.js, new artifact), and no other
\* notification and no hook batch between them.
C12_AsStated ==
    \A p \in DOMAIN watchers : \A a, c \in Readdir(p) \cup DOMAIN watchers[p].files :
        Renamed(p, a, c)
        => RenameNotified(p, a, c) =
             << <<"unload", Append(p, a), cache[Append(p, a)]>>,
                <<"load", Append(p, c), Stat(Append(p, c))>> >>

\* C12 (amended): the queue receives unload(a.js, artifact), then the onUnload
\* hook of the old module if it declares one, and then, unless the loader
\* rejects c.js or its exports carry jsrundir: null, the onLoad hook of the new
\* module if it declares one followed by load(c.js, new artifact); nothing else
\* is enqueued, and when c.js is rejected or carries jsrundir: null no load
\* follows the unload.
C12_Rename ==
    \A p \in DOMAIN watchers : \A a, c \in Readdir(p) \cup DOMAIN watchers[p].files :
        Renamed(p, a, c)
        => LET old == cache[Append(p, a)]
               new == Stat(Append(p, c))
           IN RenameNotified(p, a, c) =
                << <<"unload", Append(p, a), old>> >>
                \o (IF old = "hooks" THEN << <<"onUnload", Append(p, a), old>> >> ELSE <<>>)
                \o (IF new \in {"bad", "jsnull"} THEN <<>>
                    ELSE (IF new = "hooks" THEN << <<"onLoad", Append(p, c), new>> >> ELSE <<>>)
                         \o << <<"load", Append(p, c), new>> >>)

\* a loaded script that declares both hooks has been renamed from a.js to c.js
C12_Witness ==
    /\ Renamed(<<"r">>, "a.js", "c.js")
    /\ cache[<<"r", "a.js">>] = "hooks"
    /\ Stat(<<"r", "c.js">>) = "hooks"

----------------------------------------------------------------------------
(* The life of a target *)

\* target t was started once (watch() registered its callbacks) and a stop()
\* has since closed its handle and emptied its maps
Stopped(t) ==
    /\ watchers[t].added # <<>>
    /\ ~watchers[t].watcher
    /\ watchers[t].files = EmptyMap /\ watchers[t].directories = EmptyMap

\* tr enqueues a load notification for a file of target t
LoadsUnder(tr, t) ==
    \E k \in DOMAIN tr : tr[k].op = "notify" /\ tr[k].x = "load" /\ IsUnder(tr[k].path, t)

\* C13 (as stated): a target that has been stopped never holds a native handle
\* again, and no load notification is enqueued for its files after the stop,
\* whatever add, run and stop calls follow.
C13_AsStated ==
    [][ \A t \in Range(targets) :
          Stopped(t) => (~watchers'[t].watcher /\ ~LoadsUnder(trace', t)) ]_vars

\* C13 (amended): a stopped target holds no handle and no load notification is
\* enqueued for its files as long as run() is not called again; a later run()
\* that returns normally starts the target again.
C13_Lifecycle ==
    [][ \A t \in Range(targets) :
          Stopped(t) =>
            IF trace' # <<>> /\ trace'[1].op = "run"
              THEN result' = "none" => watchers'[t].watcher
              ELSE ~watchers'[t].watcher /\ ~LoadsUnder(trace', t) ]_vars

\* stop() returned normally and left the started root stopped
C13_Witness ==
    /\ trace # <<>> /\ trace[1].op = "stop" /\ result = "none"
    /\ Len(trace) > 2
    /\ <<"r">> \in Range(targets) /\ Stopped(<<"r">>)

----------------------------------------------------------------------------
(* SpecDrain: an engine that is run once and stopped, with observers that    *)
(* return, throw or return a promise; the event loop runs every promise      *)
(* reaction that is ready, and every promise a handler returned settles      *)

DrainDisks == { Tree({<<"r">>}, (<<"r", "a.js">> :> "hooks"), {}) }

InitDrain == disk \in DrainDisks /\ InitEngine

\* the first run() of the engine
RunOnce ==
    /\ \A t \in Range(targets) : watchers[t].added = <<>>
    /\ Run

NextDrain ==
    \/ Add(<<"r">>)
    \/ \E event \in {"load", "unload"} : On(event, "f")
    \/ RunOnce
    \/ Stop
    \/ StartBatch(Outcomes)
    \/ SettleHandler
    \/ CompleteBatch

SpecDrain ==
    /\ InitDrain /\ [][NextDrain]_vars
    /\ WF_vars(StartBatch(Outcomes))
    /\ WF_vars(SettleHandler)
    /\ WF_vars(CompleteBatch)

\* the step is a call of stop()
IsStop == trace' # <<>> /\ trace'[1].op = "stop"

\* C14 (no observer is invoked): stop() only appends entries to the queue; the
\* entries already there keep their state, and no entry's handlers are called
\* during the call.
C14_InvokesNone ==
    [][ IsStop =>
          /\ Len(queue') >= Len(queue)
          /\ \A i \in DOMAIN queue : queue'[i] = queue[i]
          /\ \A i \in DOMAIN queue' :
                i > Len(queue) => (queue'[i].hs = <<>> /\ queue'[i].phase \in {"waiting", "resolved"})
          /\ Ident(queue') = Ident(queue) \o Notified(trace') ]_vars

\* C14 (in order): an entry leaves the queue only from its head, after its
\* batch has begun and its handlers have all settled.
C14_InOrder ==
    [][ Len(queue') < Len(queue) =>
          /\ Ident(queue') = Tail(Ident(queue))
          /\ queue[1].phase = "running"
          /\ Settled(queue[1]) ]_vars

\* stop() has just been called
StopCalled == trace # <<>> /\ trace[1].op = "stop"

\* C14: stop() returns without invoking an observer and without waiting for the
\* queue; provided every handler settles, every batch enqueued before or during
\* stop() is then executed in enqueue order and the queue becomes empty.
C14_StopDrains ==
    /\ C14_InvokesNone
    /\ C14_InOrder
    /\ [](StopCalled => <>(queue = <<>>))

\* stop() returned while the batch at the head was waiting for a promise of a
\* handler, and enqueued unload notifications behind it
C14_Witness ==
    /\ StopCalled /\ result = "none"
    /\ Len(queue) >= 2
    /\ queue[1].phase = "running" /\ ~Settled(queue[1])
    /\ \E k \in DOMAIN trace : trace[k].op = "notify" /\ trace[k].x = "unload"

----------------------------------------------------------------------------
(* SpecRace: files are written again while run() scans their directory *)

RaceDisks ==
    { Tree({<<"r">>, <<"r", "d">>}, (<<"r", "a.js">> :> c) @@ (<<"r", "d", "x.js">> :> "plain"), {})
      : c \in {"plain", "hooks", "jsnull"} }

InitRace == disk \in RaceDisks /\ InitEngine

NextRace ==
    \/ Add(<<"r">>)
    \/ Run
    \/ \E p \in DOMAIN disk : RunTouching(p)
    \/ Stop
    \/ Dispatch
    \/ StartBatch({"returns"})
    \/ CompleteBatch

SpecRace == InitRace /\ [][NextRace]_vars

\* item k of tr is an onAdd or onRemove call for the path
IsCall(tr, k, op, path) == tr[k].op = op /\ tr[k].path = path

\* C15 (as stated): watch() installs the native handle after the scan: every
\* onAdd call of a scan precedes the installation of the handle of the scanned
\* directory, and an event that arrived during the scan makes no entry be
\* removed or added again.
C15_AsStated ==
    [][ /\ \A k \in DOMAIN trace' :
             trace'[k].op = "watch"
             => \A j \in DOMAIN trace' :
                   (trace'[j].op = "onAdd" /\ Parent(trace'[j].path) = trace'[k].path) => j < k
        /\ \A p \in DOMAIN watchers : \A file \in DOMAIN watchers[p].files :
             Dispatched(p, file)
             => \A j \in DOMAIN trace' : trace'[j].op \notin {"onAdd", "onRemove"} ]_vars

\* C15 (amended): watch() installs the native handle first: the handle of the
\* scanned directory is open before the first onAdd call of its scan, and
\* stays open; an event that arrived during the scan for a file the scan
\* added is dispatched after it, and then the file is removed and, unless the
\* remover throws, added again.
C15_HandleFirst ==
    [][ /\ \A k \in DOMAIN trace' :
             trace'[k].op = "watch"
             => /\ watchers'[trace'[k].path].watcher
                /\ \A j \in DOMAIN trace' :
                      (trace'[j].op = "onAdd" /\ Parent(trace'[j].path) = trace'[k].path) => j > k
        /\ \A p \in DOMAIN watchers : \A file \in DOMAIN watchers[p].files :
             (Dispatched(p, file) /\ IsFile(Append(p, file)))
             => /\ IsCall(trace', 2, "onRemove", Append(p, file))
                /\ result' = "none"
                   => \E j \in 3..Len(trace') : IsCall(trace', j, "onAdd", Append(p, file)) ]_vars

\* run() has scanned the root and loaded a.js, and the event of a write to a.js
\* that happened during the scan waits to be dispatched
C15_Witness ==
    /\ trace # <<>> /\ trace[1].op = "run" /\ result = "none"
    /\ \E j \in DOMAIN trace : IsCall(trace, j, "onAdd", <<"r", "a.js">>)
    /\ events = << <<<<"r">>, "a.js">> >>
    /\ "a.js" \in DOMAIN watchers[<<"r">>].files

----------------------------------------------------------------------------
(* Reconciliation of an event for a tracked name *)

\* the indexes of tr at which op is called for path
CallsAt(tr, op, path) == {k \in DOMAIN tr : IsCall(tr, k, op, path)}

\* C16 (as stated): an event for a name a watcher tracks, as a file or as a
\* subdirectory, while the name still exists with the same kind, results in
\* exactly one onRemove call followed by exactly one onAdd call for it.
C16_AsStated ==
    [][ \A p \in DOMAIN watchers :
          \A name \in DOMAIN watchers[p].files \cup DOMAIN watchers[p].directories :
            (/\ Dispatched(p, name)
             /\ \/ name \in DOMAIN watchers[p].files /\ IsFile(Append(p, name))
                \/ name \in DOMAIN watchers[p].directories /\ IsDir(Append(p, name)))
            => \E i, j \in DOMAIN trace' :
                  /\ i < j
                  /\ CallsAt(trace', "onRemove", Append(p, name)) = {i}
                  /\ CallsAt(trace', "onAdd", Append(p, name)) = {j} ]_vars

\* C16 (amended): an event for a tracked file that is still a file results in
\* exactly one onRemove call for it followed, unless the remover throws, by
\* exactly one onAdd call; an event for a tracked subdirectory that is still a
\* directory results in no call at all and changes nothing in the watchers.
C16_Reconcile ==
    [][ \A p \in DOMAIN watchers :
          /\ \A name \in DOMAIN watchers[p].files :
               (Dispatched(p, name) /\ IsFile(Append(p, name)))
               => /\ CallsAt(trace', "onRemove", Append(p, name)) = {2}
                  /\ IF result' = "none"
                       THEN \E j \in 3..Len(trace') :
                               CallsAt(trace', "onAdd", Append(p, name)) = {j}
                       ELSE CallsAt(trace', "onAdd", Append(p, name)) = {}
          /\ \A name \in DOMAIN watchers[p].directories \ DOMAIN watchers[p].files :
               (Dispatched(p, name) /\ IsDir(Append(p, name)))
               => /\ trace' = <<Item("event", p, name, "-")>>
                  /\ watchers' = watchers /\ cache' = cache /\ queue' = queue ]_vars

\* an event for the tracked subdirectory d, still a directory, was dispatched
\* and no call was made
C16_Witness ==
    /\ trace = <<Item("event", <<"r">>, "d", "-")>>
    /\ <<"r">> \in DOMAIN watchers
    /\ "d" \in DOMAIN watchers[<<"r">>].directories
    /\ IsDir(<<"r", "d">>)

----------------------------------------------------------------------------
(* SpecKinds: a root whose names change kind: a.js and b.js are scripts, are *)
(* deleted, and come back as directories or as scripts                       *)

KindDisks ==
    { Tree({<<"r">>}, (<<"r", "a.js">> :> "plain") @@ (<<"r", "b.js">> :> c), {})
      : c \in {"plain", "null"} }

InitKinds == disk \in KindDisks /\ InitEngine

NextKinds ==
    \/ Add(<<"r">>)
    \/ Run
    \/ Stop
    \/ Dispatch
    \/ StartBatch({"returns"})
    \/ CompleteBatch
    \/ \E p \in DOMAIN disk : WriteFile(p, "plain")
    \/ \E p \in DOMAIN disk : Unlink(p)
    \/ \E p \in DOMAIN disk : MkdirNamed(p)

SpecKinds == InitKinds /\ [][NextKinds]_vars

\* C17: in every reachable state of every watcher, no name is in both the
\* files map and the directories map.
C17_OneMap ==
    \A p \in DOMAIN watchers :
        DOMAIN watchers[p].files \cap DOMAIN watchers[p].directories = {}

----------------------------------------------------------------------------
(* Lifecycle hooks *)

\* C18: for every artifact the loader can return, the adder and the remover
\* complete without an error escaping the native callback or stop(): no
\* dispatched event and no stop() ends with a TypeError of the hook test, which
\* would leave the remaining add and remove steps undone.
C18_HooksChecked ==
    (trace # <<>> /\ trace[1].op \in {"event", "stop"})
    => \A k \in DOMAIN trace :
          (trace[k].op = "throw" /\ trace[k].x = "TypeError")
          => ~(k > 1 /\ trace[k - 1].op = "notify" /\ trace[k - 1].x = "unload")

----------------------------------------------------------------------------
(* Engine stop() *)

\* C19: for any targets registered with add, a target in a directory of
\* another target among them, a stop() called after run() completes without
\* error, and afterwards no root or subdirectory watcher holds a handle, every
\* files and directories map is empty, and an unload notification was enqueued
\* for every file that was loaded.
C19_StopAll ==
    [][ (IsStop /\ \E t \in Range(targets) : watchers[t].watcher)
        => /\ result' = "none"
           /\ \A p \in DOMAIN watchers' :
                 /\ ~watchers'[p].watcher
                 /\ watchers'[p].files = EmptyMap
                 /\ watchers'[p].directories = EmptyMap
           /\ \A path \in DOMAIN cache :
                 \E k \in DOMAIN trace' : IsNotify(trace', k, "unload", path) ]_vars

----------------------------------------------------------------------------
(* The order of load and unload notifications of a path *)

\* the paths whose last notification before item k of the step's trace tr was
\* a load, in this step or in an earlier one, with the artifact of that load
LoadedBefore(tr, k) == Replay(last, SubSeq(tr, 1, k - 1))

\* C20: every unload notification for a path comes after a load notification
\* for the same path and artifact with no other unload for the path between
\* them, and every load notification for a path comes first or after an unload
\* for the path, never after another load.
C20_Alternate ==
    [][ \A k \in DOMAIN trace' :
          /\ (trace'[k].op = "notify" /\ trace'[k].x = "unload")
             => /\ trace'[k].path \in DOMAIN LoadedBefore(trace', k)
                /\ LoadedBefore(trace', k)[trace'[k].path] = trace'[k].art
          /\ (trace'[k].op = "notify" /\ trace'[k].x = "load")
             => trace'[k].path \notin DOMAIN LoadedBefore(trace', k) ]_vars

====
